---- MODULE Spec2Model ----
(***************************************************************************)
(* Row containment engine of libcudf: cudf::contains with a scalar needle  *)
(* and with a column of needles, over leaf, STRUCT, LIST and DICTIONARY32  *)
(* columns.                                                                *)
(*                                                                         *)
(* A column is [type, rows, keys]. A row is                                *)
(*   leaf        [valid, v]       v: the stored value (also under a null)  *)
(*   STRUCT      [valid, f]       f: <<field 1, field 2>>, leaf elements   *)
(*   LIST        [valid, e]       e: the sequence of leaf elements         *)
(*   DICTIONARY  [valid, v]       v: the stored index into keys            *)
(* keys is the sorted key sequence of a dictionary column, <<>> otherwise. *)
(***************************************************************************)
EXTENDS Integers, Sequences, FiniteSets, TLC

VARIABLES haystack, needle, needles, entry, impl, pc, result, out,
          haystack_map, inserted, probed,
          lists, search_key, find_option, key_positions,
          scan_found, evaluated, interval,
          input, target, warp_done

vars == <<haystack, needle, needles, entry, impl, pc, result, out,
          haystack_map, inserted, probed, lists, search_key, find_option,
          key_positions, scan_found, evaluated, interval, input, target,
          warp_done>>

\* the state of a call of cudf::lists::index_of or cudf::lists::contains
lists_vars == <<lists, search_key, find_option, key_positions>>

\* the state of a thrust::find or thrust::find_if in progress
scan_vars == <<scan_found, evaluated, interval>>

\* the state of a call of cudf::strings::contains
strings_vars == <<input, target, warp_done>>

(* ------------------------------ bounds --------------------------------- *)

\* largest INT32 value stored in a column
MaxVal == 2
\* rows of a haystack column
MaxRows == 2
\* rows of the haystack and of the needles column of a batched call, together
MaxTotal == 3
\* row hashes are kept modulo HashMod
HashMod == 4

(* --------------------------- column values ----------------------------- *)

\* the FLOAT32 value that is not equal to itself
NaN == 0

LeafTypes == {"INT32", "FLOAT32"}

NestedTypes == {"STRUCT", "LIST"}

TypeIds == LeafTypes \cup NestedTypes \cup {"DICTIONARY32"}

is_nested(t) == t \in NestedTypes

Vals(t) == IF t = "FLOAT32" THEN {NaN, 1} ELSE 1..MaxVal

\* values left in the data buffer under a null element
StoredUnderNull == {1, 2}

Valid(x) == [valid |-> TRUE, v |-> x]

Null(x) == [valid |-> FALSE, v |-> x]

LeafElems(t) == {Valid(x) : x \in Vals(t)} \cup {Null(x) : x \in StoredUnderNull}

SeqsOf(S, n) == [1..n -> S]

SeqsUpTo(S, n) == UNION {SeqsOf(S, k) : k \in 0..n}

\* the fields under a null struct row are null themselves, or still valid
StructRows(F1, F2) ==
  {[valid |-> TRUE, f |-> <<a, b>>] : a \in F1, b \in F2}
    \cup {[valid |-> FALSE, f |-> <<Null(1), Null(1)>>],
          [valid |-> FALSE, f |-> <<Valid(1), Valid(1)>>]}

\* the element ranges of a list row: none, one or two elements
ListShapes(E) == {<<>>} \cup {<<a>> : a \in E} \cup {<<a, b>> : a \in E, b \in E}

ListRows(E) ==
  {[valid |-> TRUE, e |-> s] : s \in ListShapes(E)}
    \cup {[valid |-> FALSE, e |-> <<>>]}

Column(t, rows) == [type |-> t, rows |-> rows, keys |-> <<>>]

\* the sorted key sequences of a dictionary over 1..MaxVal
RECURSIVE SortedSeq(_)
SortedSeq(S) ==
  IF S = {} THEN <<>>
  ELSE LET m == CHOOSE x \in S : \A y \in S : x <= y
       IN <<m>> \o SortedSeq(S \ {m})

DictRows(keys) ==
  {Valid(i) : i \in 0..(Len(keys) - 1)} \cup {Null(0)}

\* the dictionary columns of n rows: any key set when empty, else a non-empty one
DictColumns(n) ==
  UNION {{[type |-> "DICTIONARY32", rows |-> r, keys |-> SortedSeq(K)] :
            r \in SeqsOf(DictRows(SortedSeq(K)), n)} :
         K \in {S \in SUBSET (1..MaxVal) : n = 0 \/ S # {}}}

size(col) == Len(col.rows)

is_empty(col) == size(col) = 0

null_count(col) == Cardinality({i \in 1..size(col) : ~col.rows[i].valid})

has_nulls(col) == null_count(col) > 0

NullElems(col, i) ==
  IF col.type = "STRUCT" THEN {k \in 1..2 : ~col.rows[i].f[k].valid}
  ELSE IF col.type = "LIST"
       THEN {k \in 1..Len(col.rows[i].e) : ~col.rows[i].e[k].valid}
       ELSE {}

\* nulls at the top level or in any child column
has_nested_nulls(col) ==
  \E i \in 1..size(col) : ~col.rows[i].valid \/ NullElems(col, i) # {}


Row(col, i) == col.rows[i + 1]

(* ------------------- row equality comparator (4.1) --------------------- *)

\* null_equality::EQUAL, the default of device_comparator
NullsEqual == TRUE

\* one leaf element against another; check_nulls is nullate::DYNAMIC
ElemEq(check_nulls, nulls_equal, a, b) ==
  IF check_nulls /\ (~a.valid \/ ~b.valid)
  THEN nulls_equal /\ ~a.valid /\ ~b.valid
  ELSE a.v = b.v

StructEq(check_nulls, nulls_equal, a, b) ==
  IF check_nulls /\ (~a.valid \/ ~b.valid)
  THEN nulls_equal /\ ~a.valid /\ ~b.valid
  ELSE \A k \in 1..2 : ElemEq(check_nulls, nulls_equal, a.f[k], b.f[k])

ListEq(check_nulls, nulls_equal, a, b) ==
  IF check_nulls /\ (~a.valid \/ ~b.valid)
  THEN nulls_equal /\ ~a.valid /\ ~b.valid
  ELSE /\ Len(a.e) = Len(b.e)
       /\ \A k \in 1..Len(a.e) : ElemEq(check_nulls, nulls_equal, a.e[k], b.e[k])

RowEq(t, check_nulls, nulls_equal, a, b) ==
  IF t = "STRUCT" THEN StructEq(check_nulls, nulls_equal, a, b)
  ELSE IF t = "LIST" THEN ListEq(check_nulls, nulls_equal, a, b)
  ELSE ElemEq(check_nulls, nulls_equal, a, b)

\* two_table_comparator(lhs, rhs).device_comparator(check_nulls)(i, j)
two_table_comparator(lhs, rhs, check_nulls, i, j) ==
  RowEq(lhs.type, check_nulls, NullsEqual, Row(lhs, i), Row(rhs, j))

(* -------------------------- thrust primitives -------------------------- *)

\* thrust::find / find_if over [0, n): the first index among hits (the indices
\* satisfying the predicate), else n
find_if(n, hits) ==
  IF hits # {}
  THEN CHOOSE i \in hits : \A k \in hits : i <= k
  ELSE n

Indices(col) == 0..(size(col) - 1)

\* operator== of the device storage type
EqVal(t, a, b) == a = b /\ ~(t = "FLOAT32" /\ a = NaN)

(* ---------------------- contains(column, scalar) ----------------------- *)

\* a scalar is [type, valid, row]; row is the value as a valid row
Scalar(t, valid, row) == [type |-> t, valid |-> valid, row |-> row]

\* as needle_as_col, with the offsets of a list needle covering one element at most
needle_as_col_short_offsets(s) ==
  Column(s.type, <<IF s.type = "LIST"
                   THEN [valid |-> TRUE,
                         e |-> SubSeq(s.row.e, 1, IF Len(s.row.e) > 1 THEN 1 ELSE Len(s.row.e))]
                   ELSE [s.row EXCEPT !.valid = TRUE]>>)

\* the one-row column view built from a nested scalar (no null mask)
needle_as_col(s) == Column(s.type, <<[s.row EXCEPT !.valid = TRUE]>>)

\* as contains_nested_element, with the nulls of the child columns not looked for
contains_nested_element_top_nulls(hay, needle_col) ==
  LET check_nulls == has_nulls(hay) \/ has_nulls(needle_col)
      d_comp(idx) == two_table_comparator(hay, needle_col, check_nulls, idx, 0)
      pred(idx) == IF has_nulls(hay)
                   THEN Row(hay, idx).valid /\ d_comp(idx)
                   ELSE d_comp(idx)
  IN find_if(size(hay), {idx \in Indices(hay) : pred(idx)}) # size(hay)

\* as contains_nested_element, with the scan over the first row only
contains_nested_element_first_row(hay, needle_col) ==
  LET check_nulls == has_nested_nulls(hay) \/ has_nested_nulls(needle_col)
      d_comp(idx) == two_table_comparator(hay, needle_col, check_nulls, idx, 0)
      pred(idx) == IF has_nulls(hay)
                   THEN Row(hay, idx).valid /\ d_comp(idx)
                   ELSE d_comp(idx)
  IN find_if(size(hay), {idx \in Indices(hay) : idx = 0 /\ pred(idx)}) # size(hay)

contains_nested_element(hay, needle_col) ==
  LET check_nulls == has_nested_nulls(hay) \/ has_nested_nulls(needle_col)
      d_comp(idx) == two_table_comparator(hay, needle_col, check_nulls, idx, 0)
      pred(idx) == IF has_nulls(hay)
                   THEN Row(hay, idx).valid /\ d_comp(idx)
                   ELSE d_comp(idx)
  IN find_if(size(hay), {idx \in Indices(hay) : pred(idx)}) # size(hay)

\* contains_scalar_dispatch for a non-nested Type
contains_scalar_leaf(hay, s) ==
  IF hay.type # s.type THEN "error"
  ELSE LET val == s.row.v
           pairEq(i) == EqVal(hay.type, Row(hay, i).v, val) /\ Row(hay, i).valid = TRUE
           valEq(i) == EqVal(hay.type, Row(hay, i).v, val)
           found_it == IF has_nulls(hay)
                       THEN find_if(size(hay), {i \in Indices(hay) : pairEq(i)})
                       ELSE find_if(size(hay), {i \in Indices(hay) : valEq(i)})
       IN IF found_it # size(hay) THEN "true" ELSE "false"

\* contains_scalar_dispatch for struct_view and list_view
contains_scalar_nested(hay, s) ==
  IF hay.type # s.type THEN "error"
  ELSE IF contains_nested_element(hay, needle_as_col(s)) THEN "true" ELSE "false"

\* dictionary::detail::get_index: the position of the key, invalid if absent
get_index(dict_col, s) ==
  IF \E k \in 1..Len(dict_col.keys) : dict_col.keys[k] = s.row.v
  THEN Scalar("INT32", TRUE,
              Valid((CHOOSE k \in 1..Len(dict_col.keys) : dict_col.keys[k] = s.row.v) - 1))
  ELSE Scalar("INT32", FALSE, Valid(0))

\* dictionary_column_view::indices(): the child column, without the parent's null mask
indices(dict_col) ==
  Column("INT32", [i \in 1..size(dict_col) |-> Valid(dict_col.rows[i].v)])

\* contains_scalar_dispatch for dictionary32
contains_scalar_dictionary(hay, s) ==
  IF s.type # "INT32" THEN "error"
  ELSE LET index == get_index(hay, s)
       IN IF index.valid THEN contains_scalar_leaf(indices(hay), index) ELSE "false"

contains_scalar_dispatch(hay, s) ==
  IF hay.type = "DICTIONARY32" THEN contains_scalar_dictionary(hay, s)
  ELSE IF is_nested(hay.type) THEN contains_scalar_nested(hay, s)
  ELSE contains_scalar_leaf(hay, s)

\* as contains_scalar, without the early return for an invalid needle
contains_scalar_no_null_check(hay, s) ==
  IF is_empty(hay) THEN "false"
  ELSE contains_scalar_dispatch(hay, s)

\* as contains_scalar, without the early return for an empty haystack
contains_scalar_no_empty_check(hay, s) ==
  IF ~s.valid THEN (IF has_nulls(hay) THEN "true" ELSE "false")
  ELSE contains_scalar_dispatch(hay, s)

\* cudf::detail::contains(column_view, scalar)
contains_scalar(hay, s) ==
  IF is_empty(hay) THEN "false"
  ELSE IF ~s.valid THEN (IF has_nulls(hay) THEN "true" ELSE "false")
  ELSE contains_scalar_dispatch(hay, s)

\* as structs_contains, with the nulls of the needle's fields not looked for
structs_contains_haystack_nulls(hay, s) ==
  IF hay.type # s.type THEN "error"
  ELSE LET needle_col == needle_as_col(s)
           check_nulls == has_nested_nulls(hay)
           pred(idx) == two_table_comparator(hay, needle_col, check_nulls, idx, 0)
           found_iter == find_if(size(hay), {idx \in Indices(hay) : pred(idx)})
       IN IF found_iter # size(hay) THEN "true" ELSE "false"

\* cudf::structs::detail::contains(structs_column_view, scalar)
structs_contains(hay, s) ==
  IF hay.type # s.type THEN "error"
  ELSE LET needle_col == needle_as_col(s)
           check_nulls == has_nested_nulls(hay) \/ has_nested_nulls(needle_col)
           pred(idx) == two_table_comparator(hay, needle_col, check_nulls, idx, 0)
           found_iter == find_if(size(hay), {idx \in Indices(hay) : pred(idx)})
       IN IF found_iter # size(hay) THEN "true" ELSE "false"

(* --------------------- scalar-needle specification --------------------- *)

RichStructRows == StructRows(LeafElems("INT32"), LeafElems("INT32"))

RichListRows == ListRows(LeafElems("INT32"))

ScalarHaystacks ==
  UNION {{Column(t, r) : r \in SeqsUpTo(LeafElems(t), MaxRows)} : t \in LeafTypes}
    \cup {Column("STRUCT", r) : r \in SeqsUpTo(RichStructRows, MaxRows)}
    \cup {Column("LIST", r) : r \in SeqsUpTo(RichListRows, MaxRows)}
    \cup UNION {DictColumns(n) : n \in 0..MaxRows}

ScalarNeedles ==
  UNION {{Scalar(t, TRUE, Valid(x)) : x \in Vals(t)} \cup {Scalar(t, FALSE, Valid(1))} :
         t \in LeafTypes}
    \cup {Scalar("STRUCT", r.valid, [r EXCEPT !.valid = TRUE]) : r \in RichStructRows}
    \cup {Scalar("LIST", r.valid, [r EXCEPT !.valid = TRUE]) : r \in RichListRows}

\* the needle has the haystack's element type, or both are leaves of different types
Compatible(hay, s) ==
  \/ hay.type = s.type
  \/ hay.type = "DICTIONARY32" /\ s.type = "INT32"
  \/ hay.type \in LeafTypes /\ s.type \in LeafTypes

\* the struct rows [{1, "a"}, {null, "b"}, {1, "a"}], with 1 for "a" and 2 for "b"
StructScenario ==
  Column("STRUCT", <<[valid |-> TRUE, f |-> <<Valid(1), Valid(1)>>],
                     [valid |-> TRUE, f |-> <<Null(1), Valid(2)>>],
                     [valid |-> TRUE, f |-> <<Valid(1), Valid(1)>>]>>)

InitScalar ==
  /\ haystack \in ScalarHaystacks \cup {StructScenario}
  /\ needle \in ScalarNeedles
  /\ Compatible(haystack, needle)
  /\ needles = Column("INT32", <<>>)
  /\ entry = "none"
  /\ impl = "none"
  /\ pc = "start"
  /\ result = "none"
  /\ out = <<>>
  /\ haystack_map = <<>>
  /\ inserted = {}
  /\ probed = {}
  /\ lists = <<>>
  /\ search_key = <<>>
  /\ find_option = "none"
  /\ key_positions = <<>>
  /\ scan_found = 0
  /\ evaluated = {}
  /\ interval = 0
  /\ input = [type |-> "STRING", rows |-> <<>>, keys |-> <<>>]
  /\ target = [valid |-> FALSE, s |-> <<>>]
  /\ warp_done = {}

\* bool cudf::contains(column_view const& haystack, scalar const& needle)
Contains ==
  /\ pc = "start"
  /\ entry' = "contains"
  /\ result' = contains_scalar(haystack, needle)
  /\ pc' = "done"
  /\ UNCHANGED <<haystack, needle, needles, impl, out, haystack_map, inserted, probed>>
  /\ UNCHANGED lists_vars
  /\ UNCHANGED scan_vars
  /\ UNCHANGED strings_vars

\* bool cudf::structs::detail::contains(structs_column_view const&, scalar const&)
StructsContains ==
  /\ pc = "start"
  /\ haystack.type = "STRUCT"
  /\ entry' = "structs::contains"
  /\ result' = structs_contains(haystack, needle)
  /\ pc' = "done"
  /\ UNCHANGED <<haystack, needle, needles, impl, out, haystack_map, inserted, probed>>
  /\ UNCHANGED lists_vars
  /\ UNCHANGED scan_vars
  /\ UNCHANGED strings_vars

NextScalar == Contains \/ StructsContains

SpecScalar == InitScalar /\ [][NextScalar]_vars

(* ------------------------ scalar-needle claims ------------------------- *)

Returned(e) == pc = "done" /\ entry = e

NullRows(col) == {i \in 0..(size(col) - 1) : ~Row(col, i).valid}

\* C1: for a non-empty haystack and an invalid (null) needle, contains returns
\* true exactly when the haystack has at least one null row, for every element
\* type.
C1_NullNeedle ==
  (Returned("contains") /\ ~is_empty(haystack) /\ ~needle.valid)
    => /\ result \in {"true", "false"}
       /\ result = "true" <=> NullRows(haystack) # {}

C1_Witness ==
  /\ Returned("contains") /\ ~needle.valid
  /\ haystack.type = "LIST" /\ size(haystack) = 2
  /\ NullRows(haystack) = {1}
  /\ result = "true"

\* C2: for a haystack of zero rows, contains returns false for every needle,
\* valid or null.
C2_EmptyHaystack ==
  (Returned("contains") /\ size(haystack) = 0) => result = "false"

C2_Witness ==
  /\ Returned("contains") /\ size(haystack) = 0
  /\ needle.valid /\ haystack.type = "STRUCT"
  /\ result = "false"

\* the needle equals haystack row i: operator== for a leaf, the null-aware
\* recursive row comparison for a nested type
EqualsNeedle(i) ==
  IF is_nested(haystack.type)
  THEN RowEq(haystack.type, TRUE, NullsEqual, Row(haystack, i), needle.row)
  ELSE EqVal(haystack.type, Row(haystack, i).v, needle.row.v)

MatchingRows ==
  {i \in 0..(size(haystack) - 1) : Row(haystack, i).valid /\ EqualsNeedle(i)}

\* C3: for a non-empty haystack and a valid needle of the same type, contains
\* returns true exactly when some haystack row is non-null and equals the
\* needle; a null haystack row never matches.
C3_ValidNeedle ==
  (/\ pc = "done" /\ entry \in {"contains", "structs::contains"}
   /\ ~is_empty(haystack) /\ needle.valid /\ haystack.type = needle.type)
    => /\ result \in {"true", "false"}
       /\ result = "true" <=> MatchingRows # {}

\* a null struct row and a struct row with a null field, neither of which
\* matches, before the row that does
C3_Witness ==
  /\ Returned("contains") /\ needle.valid
  /\ haystack.type = "STRUCT" /\ size(haystack) = 2
  /\ ~Row(haystack, 0).valid
  /\ ~needle.row.f[1].valid
  /\ MatchingRows = {1}
  /\ result = "true"

\* the scalar holding the value of haystack row 0
IsRow0(s) ==
  LET r == Row(haystack, 0)
  IN /\ s.valid = r.valid
     /\ IF haystack.type = "DICTIONARY32"
        THEN s.type = "INT32" /\ (r.valid => s.row = Valid(haystack.keys[r.v + 1]))
        ELSE s.type = haystack.type /\ (r.valid => s.row = r)

\* C4: self-containment: for every non-empty haystack H, contains(H, the value
\* of row 0 of H) returns true.
C4_SelfContainment ==
  (Returned("contains") /\ ~is_empty(haystack) /\ IsRow0(needle)) => result = "true"


(* --------------------------- row hasher (4.2) -------------------------- *)

\* the fixed hash of a null element
NullHash == HashMod - 1

\* order-sensitive mixing of a running hash with the next element's hash
hash_combine(lhs, rhs) == (2 * lhs + rhs) % HashMod

ElemHash(check_nulls, a) ==
  IF check_nulls /\ ~a.valid THEN NullHash ELSE a.v % HashMod

RECURSIVE FoldHash(_, _, _)
FoldHash(check_nulls, acc, elems) ==
  IF elems = <<>> THEN acc
  ELSE FoldHash(check_nulls, hash_combine(acc, ElemHash(check_nulls, Head(elems))),
                Tail(elems))

RowHash(t, check_nulls, r) ==
  IF ~is_nested(t) THEN ElemHash(check_nulls, r)
  ELSE IF check_nulls /\ ~r.valid THEN NullHash
  ELSE FoldHash(check_nulls, 0, IF t = "STRUCT" THEN r.f ELSE r.e)

\* row_hasher(table).device_hasher(check_nulls)(i)
row_hasher(col, check_nulls, i) == RowHash(col.type, check_nulls, Row(col, i))

(* ------------------------ hash map primitive (6) ----------------------- *)

COMPACTION_EMPTY_KEY_SENTINEL == 2147483647

\* compaction_hash: a row hash that never equals the empty-key sentinel
compaction_hash(h) == IF h = COMPACTION_EMPTY_KEY_SENTINEL THEN h - 1 ELSE h

compute_hash_table_size(n) == 2 * n

\* as EmptyMap, with half of the slots
EmptyMap_half(capacity) == [s \in 1..(capacity \div 2) |-> COMPACTION_EMPTY_KEY_SENTINEL]

EmptyMap(capacity) == [s \in 1..capacity |-> COMPACTION_EMPTY_KEY_SENTINEL]

Keys(map) == {map[s] : s \in 1..Len(map)} \ {COMPACTION_EMPTY_KEY_SENTINEL}

\* linear probing from the slot of hash h: the first slot that is empty or holds
\* one of the keys in `equal` (the stored keys the key equality accepts)
FindSlot(map, h, equal) ==
  LET slot(d) == ((h + d) % Len(map)) + 1
      stop(d) == map[slot(d)] = COMPACTION_EMPTY_KEY_SENTINEL \/ map[slot(d)] \in equal
      first == CHOOSE d \in 0..(Len(map) - 1) : stop(d) /\ \A e \in 0..(d - 1) : ~stop(e)
  IN slot(first)

\* static_map::insert of the pair (key, key): nothing is stored when an equal key is met
static_map_insert(map, key, h, equal) ==
  LET s == FindSlot(map, h, equal)
  IN IF map[s] = COMPACTION_EMPTY_KEY_SENTINEL THEN [map EXCEPT ![s] = key] ELSE map

static_map_contains(map, h, equal) ==
  map[FindSlot(map, h, equal)] # COMPACTION_EMPTY_KEY_SENTINEL

(* ---------------------- contains(column, column) ----------------------- *)

\* as make_result, with the needles' null mask not copied
make_result_all_valid(nd) ==
  [j \in 1..size(nd) |-> [valid |-> TRUE, v |-> "uninit"]]

\* make_numeric_column(BOOL8, needles.size(), copy_bitmask(needles), ...): the
\* payload is not initialised
make_result(nd) ==
  [j \in 1..size(nd) |-> [valid |-> nd.rows[j].valid, v |-> "uninit"]]

\* as fill_false, with the payload left as allocated
fill_nothing(res) == res

\* thrust::uninitialized_fill(out_begin, out_begin + needles.size(), false)
fill_false(res) == [j \in 1..Len(res) |-> [res[j] EXCEPT !.v = "false"]]

Bool(b) == IF b THEN "true" ELSE "false"

\* unordered_multiset<Type>::create(haystack): the values of the valid rows
unordered_multiset(hay) == {Row(hay, i).v : i \in {k \in Indices(hay) : Row(hay, k).valid}}

set_contains(t, set, x) == \E y \in set : EqVal(t, y, x)

\* as multi_contains_leaf, with a null needle looked up by its stored value
multi_contains_leaf_no_null_test(hay, nd) ==
  LET res == make_result(nd)
      haystack_set == unordered_multiset(hay)
      found(j) == set_contains(hay.type, haystack_set, Row(nd, j).v)
  IN IF is_empty(nd) THEN res
     ELSE IF is_empty(hay) THEN fill_false(res)
     ELSE [j \in 1..size(nd) |-> [res[j] EXCEPT !.v = Bool(found(j - 1))]]

\* multi_contains_dispatch for a non-nested Type
multi_contains_leaf(hay, nd) ==
  LET res == make_result(nd)
      haystack_set == unordered_multiset(hay)
      found(j) == set_contains(hay.type, haystack_set, Row(nd, j).v)
  IN IF is_empty(nd) THEN res
     ELSE IF is_empty(hay) THEN fill_false(res)
     ELSE IF has_nulls(nd)
          THEN [j \in 1..size(nd) |->
                  [res[j] EXCEPT !.v = Bool(~Row(nd, j - 1).valid \/ found(j - 1))]]
          ELSE [j \in 1..size(nd) |-> [res[j] EXCEPT !.v = Bool(found(j - 1))]]

Range(seq) == {seq[k] : k \in 1..Len(seq)}

KeyIndex(keys, x) == (CHOOSE k \in 1..Len(keys) : keys[k] = x) - 1

\* dictionary::detail::add_keys: the union of the keys, the rows re-indexed
add_keys(dict, new_keys) ==
  LET keys == SortedSeq(Range(dict.keys) \cup Range(new_keys))
  IN [dict EXCEPT
        !.keys = keys,
        !.rows = [i \in 1..size(dict) |->
                    IF dict.rows[i].valid
                    THEN Valid(KeyIndex(keys, dict.keys[dict.rows[i].v + 1]))
                    ELSE dict.rows[i]]]

\* dictionary::detail::set_keys: the given keys, a row whose key is gone becomes null
set_keys(dict, keys) ==
  [dict EXCEPT
     !.keys = keys,
     !.rows = [i \in 1..size(dict) |->
                 IF dict.rows[i].valid /\ dict.keys[dict.rows[i].v + 1] \in Range(keys)
                 THEN Valid(KeyIndex(keys, dict.keys[dict.rows[i].v + 1]))
                 ELSE Null(0)]]

\* dictionary_column_view::get_indices_annotated(): the indices under the parent's null mask
get_indices_annotated(dict) == Column("INT32", dict.rows)

\* as multi_contains_dictionary, with the indices compared as they are stored
multi_contains_dictionary_unmatched(hay, nd) ==
  multi_contains_leaf(get_indices_annotated(hay), get_indices_annotated(nd))

\* multi_contains_dispatch for dictionary32
multi_contains_dictionary(hay, nd) ==
  LET needles_matched == add_keys(nd, hay.keys)
      haystack_matched == set_keys(hay, needles_matched.keys)
  IN multi_contains_leaf(get_indices_annotated(haystack_matched),
                         get_indices_annotated(needles_matched))

\* index_adapter: a negative index i in [-size, -1] back to [0, size)
index_adapter(i) == -(i + 1)

\* table_comparator_adapter: the non-negative index is the haystack's, the negative the needles'
table_comparator_adapter(hay, nd, check_nulls, i, j) ==
  LET lhs_idx == IF i >= 0 THEN i ELSE j
      rhs_idx == index_adapter(IF i < 0 THEN i ELSE j)
  IN two_table_comparator(hay, nd, check_nulls, lhs_idx, rhs_idx)

\* the indices table_comparator_adapter passes to the comparator for (i, j):
\* the non-negative one as lhs_index_type, the negative one, adapted, as
\* rhs_index_type
adapter_lhs_idx(i, j) == IF i >= 0 THEN i ELSE j

adapter_rhs_idx(i, j) == index_adapter(IF i < 0 THEN i ELSE j)

\* the three files that define multi_contains_nested_elements
Impls == {"search/contains_nested.cu", "search/detail/contains_nested.cu",
          "unnamed/part_001"}

\* as build_hasher_nulls, for a hasher built as if no column had nulls
build_hasher_nulls_never(im, hay, nd) == FALSE

\* the nulls-exist flag given to the haystack hasher of the build
build_hasher_nulls(im, hay, nd) ==
  IF im = "search/detail/contains_nested.cu"
  THEN has_nested_nulls(hay) \/ has_nested_nulls(nd)
  ELSE has_nested_nulls(hay)

\* the nulls-exist flag given to the needles hasher of the probe
probe_hasher_nulls(hay, nd) == has_nested_nulls(nd)

\* as probe_comparator_nulls, true only when both columns have nulls
probe_comparator_nulls_both(hay, nd) == has_nested_nulls(hay) /\ has_nested_nulls(nd)

\* the nulls-exist flag given to the two-table comparator of the probe
probe_comparator_nulls(hay, nd) == has_nested_nulls(hay) \/ has_nested_nulls(nd)

\* d_hasher of the build, on haystack row i
build_hasher(im, hay, nd, i) ==
  compaction_hash(row_hasher(hay, build_hasher_nulls(im, hay, nd), i))

\* as build_equal, with every stored key taken for the key i
build_equal_any(im, hay, nd, map, i) == Keys(map)

\* the stored keys that the key equality of the insert takes for the key i:
\* thrust::equal_to on the indices, or self_comparator on the haystack rows
build_equal(im, hay, nd, map, i) ==
  IF im = "search/detail/contains_nested.cu"
  THEN {k \in Keys(map) :
          two_table_comparator(hay, hay, build_hasher_nulls(im, hay, nd), k, i)}
  ELSE {k \in Keys(map) : k = i}

\* the key that the probe supplies for the needle at position j: a reverse
\* iterator made from the counting iterator c begins at c - 1
needles_it(im, j) ==
  IF im = "search/contains_nested.cu" THEN (0 - 1) - j
  ELSE IF im = "unnamed/part_001" THEN (-1 - 1) - j
  ELSE j

\* the hash values d_hasher of the probe can give for the key k; a row read
\* outside its column has any value
probe_hashes(im, hay, nd, k) ==
  IF im = "search/contains_nested.cu"
  THEN {compaction_hash(row_hasher(nd, probe_hasher_nulls(hay, nd), index_adapter(k)))}
  ELSE IF im = "unnamed/part_001"
  THEN (IF k \in Indices(nd)
        THEN {compaction_hash(row_hasher(nd, probe_hasher_nulls(hay, nd), k))}
        ELSE 0..(HashMod - 1))
  ELSE IF k < size(hay) THEN {build_hasher(im, hay, nd, k)}
  ELSE 0..(HashMod - 1)

\* the row index that d_hasher of the probe passes to its row hasher for the
\* key k: row_hasher_adapter adapts it, a plain compaction_hash does not
probe_hasher_index(im, k) ==
  IF im = "search/contains_nested.cu" THEN index_adapter(k) ELSE k

\* the stored keys that the key equality of the probe takes for the key k:
\* table_comparator_adapter, or the default equality of the key type
probe_equal(im, hay, nd, map, k) ==
  IF im = "search/contains_nested.cu"
  THEN {e \in Keys(map) :
          table_comparator_adapter(hay, nd, probe_comparator_nulls(hay, nd), e, k)}
  ELSE {e \in Keys(map) : e = k}

\* the sets of stored keys that the key equality of the probe can take for the
\* key k; a comparison with a needles row read past the end has any outcome
probe_equals(im, hay, nd, map, k) ==
  IF im = "unnamed/part_001"
  THEN (IF index_adapter(k) \in Indices(nd)
        THEN {{e \in Keys(map) :
                 table_comparator_adapter(hay, nd, probe_comparator_nulls(hay, nd), e, k)}}
        ELSE SUBSET Keys(map))
  ELSE {probe_equal(im, hay, nd, map, k)}

(* ------------------------ batched specification ------------------------ *)

LeanStructRows == StructRows(LeafElems("INT32"), {Valid(1), Null(1)})

LeanListRows == ListRows({Valid(1), Null(1), Null(2)})

\* the columns of type t with n rows
MultiColumns(t, n) ==
  IF t \in LeafTypes THEN {Column(t, r) : r \in SeqsOf(LeafElems(t), n)}
  ELSE IF t = "STRUCT" THEN {Column(t, r) : r \in SeqsOf(LeanStructRows, n)}
  ELSE IF t = "LIST" THEN {Column(t, r) : r \in SeqsOf(LeanListRows, n)}
  ELSE DictColumns(n)

InitMulti ==
  /\ \E t \in TypeIds, u \in TypeIds, n \in 0..MaxRows, m \in 0..MaxTotal :
       /\ n + m <= MaxTotal
       /\ t # u => n + m <= 1
       /\ haystack \in MultiColumns(t, n)
       /\ needles \in MultiColumns(u, m)
       /\ impl \in IF is_nested(t) /\ t = u THEN Impls ELSE {"none"}
  /\ needle = Scalar("INT32", FALSE, Valid(1))
  /\ entry = "none"
  /\ pc = "start"
  /\ result = "none"
  /\ out = <<>>
  /\ haystack_map = <<>>
  /\ inserted = {}
  /\ probed = {}
  /\ lists = <<>>
  /\ search_key = <<>>
  /\ find_option = "none"
  /\ key_positions = <<>>
  /\ scan_found = 0
  /\ evaluated = {}
  /\ interval = 0
  /\ input = [type |-> "STRING", rows |-> <<>>, keys |-> <<>>]
  /\ target = [valid |-> FALSE, s |-> <<>>]
  /\ warp_done = {}

\* std::unique_ptr<column> cudf::contains(column_view const& haystack, column_view
\* const& needles): all of it for a leaf or dictionary type, up to the creation
\* of the hash map for a nested type
MultiContains ==
  /\ pc = "start"
  /\ entry' = "multi_contains"
  /\ IF haystack.type # needles.type
     THEN /\ pc' = "error"
          /\ UNCHANGED <<out, haystack_map>>
     ELSE IF haystack.type = "DICTIONARY32"
     THEN /\ out' = multi_contains_dictionary(haystack, needles)
          /\ pc' = "done"
          /\ UNCHANGED haystack_map
     ELSE IF ~is_nested(haystack.type)
     THEN /\ out' = multi_contains_leaf(haystack, needles)
          /\ pc' = "done"
          /\ UNCHANGED haystack_map
     ELSE IF is_empty(needles)
     THEN /\ out' = make_result(needles)
          /\ pc' = "done"
          /\ UNCHANGED haystack_map
     ELSE IF is_empty(haystack)
     THEN /\ out' = fill_false(make_result(needles))
          /\ pc' = "done"
          /\ UNCHANGED haystack_map
     ELSE /\ out' = make_result(needles)
          /\ haystack_map' = EmptyMap(compute_hash_table_size(size(haystack)))
          /\ pc' = "build"
  /\ UNCHANGED <<haystack, needle, needles, impl, result, inserted, probed>>
  /\ UNCHANGED lists_vars
  /\ UNCHANGED scan_vars
  /\ UNCHANGED strings_vars

\* haystack_map.insert(haystack_it, haystack_it + haystack.size(), ...): the
\* insert of the pair (i, i) by one thread
InsertRow(i) ==
  /\ pc = "build"
  /\ i \in Indices(haystack) \ inserted
  /\ haystack_map' = static_map_insert(haystack_map, i,
                                       build_hasher(impl, haystack, needles, i),
                                       build_equal(impl, haystack, needles, haystack_map, i))
  /\ inserted' = inserted \cup {i}
  /\ pc' = IF inserted' = Indices(haystack) THEN "probe" ELSE "build"
  /\ UNCHANGED <<haystack, needle, needles, entry, impl, result, out, probed>>
  /\ UNCHANGED lists_vars
  /\ UNCHANGED scan_vars
  /\ UNCHANGED strings_vars

\* as ProbeNeedle, launched without waiting for the inserts of the build
ProbeNeedle_any_time(j) ==
  /\ pc \in {"build", "probe"}
  /\ j \in Indices(needles) \ probed
  /\ \E h \in probe_hashes(impl, haystack, needles, needles_it(impl, j)),
        equal \in probe_equals(impl, haystack, needles, haystack_map,
                               needles_it(impl, j)) :
       out' = [out EXCEPT ![j + 1].v = Bool(static_map_contains(haystack_map, h, equal))]
  /\ probed' = probed \cup {j}
  /\ pc' = IF probed' = Indices(needles) THEN "done" ELSE pc
  /\ UNCHANGED <<haystack, needle, needles, entry, impl, result, haystack_map, inserted>>
  /\ UNCHANGED lists_vars
  /\ UNCHANGED scan_vars
  /\ UNCHANGED strings_vars

\* haystack_map.contains(needles_it, needles_it + needles.size(), out_begin, ...):
\* the lookup of the needle at position j by one thread
ProbeNeedle(j) ==
  /\ pc = "probe"
  /\ j \in Indices(needles) \ probed
  /\ \E h \in probe_hashes(impl, haystack, needles, needles_it(impl, j)),
        equal \in probe_equals(impl, haystack, needles, haystack_map,
                               needles_it(impl, j)) :
       out' = [out EXCEPT ![j + 1].v = Bool(static_map_contains(haystack_map, h, equal))]
  /\ probed' = probed \cup {j}
  /\ pc' = IF probed' = Indices(needles) THEN "done" ELSE "probe"
  /\ UNCHANGED <<haystack, needle, needles, entry, impl, result, haystack_map, inserted>>
  /\ UNCHANGED lists_vars
  /\ UNCHANGED scan_vars
  /\ UNCHANGED strings_vars

NextMulti ==
  \/ MultiContains
  \/ \E i \in 0..(MaxRows - 1) : InsertRow(i)
  \/ \E j \in 0..(MaxTotal - 1) : ProbeNeedle(j)

SpecMulti == InitMulti /\ [][NextMulti]_vars

(* --------------------------- batched claims ---------------------------- *)

NestedCall == is_nested(haystack.type) /\ haystack.type = needles.type

\* haystack row i and needles row j are equal rows (nulls equal)
EqualRows(i, j) ==
  RowEq(haystack.type, TRUE, NullsEqual, Row(haystack, i), Row(needles, j))

\* C5: no false positives in batched nested containment: if the result is true
\* at position j then some haystack row compares equal to needle row j; equal
\* hashes or equal row indices alone never make it true.
C5_NoFalsePositive ==
  NestedCall =>
    \A j \in probed :
      out[j + 1].v = "true" => \E i \in Indices(haystack) : EqualRows(i, j)

\* C6: no false negatives in batched nested containment: if some haystack row
\* compares equal to a valid needle row j then the result is true at position j.
C6_NoFalseNegative ==
  NestedCall =>
    \A j \in probed :
      (Row(needles, j).valid /\ \E i \in Indices(haystack) : EqualRows(i, j))
        => out[j + 1].v = "true"

HashersBuilt == NestedCall /\ pc \in {"build", "probe", "done"}

Returned_multi == pc = "done" /\ entry = "multi_contains"

\* C8: on every path of a batched call that does not fail, the output has one
\* row per needles row and output row j is null exactly when needles row j is.
C8_OutputShape ==
  Returned_multi =>
    /\ Len(out) = size(needles)
    /\ \A j \in Indices(needles) : out[j + 1].valid = Row(needles, j).valid

C8_Witness ==
  /\ Returned_multi /\ NestedCall
  /\ size(haystack) = 1 /\ size(needles) = 2
  /\ NullRows(needles) = {1}
  /\ Len(out) = 2 /\ out[1].valid /\ ~out[2].valid

\* C9: for an empty haystack and non-empty needles, the payload is false at
\* every position, null needles included, and the null mask is the needles'.
C9_EmptyHaystack ==
  (Returned_multi /\ is_empty(haystack) /\ ~is_empty(needles)) =>
    /\ Len(out) = size(needles)
    /\ \A j \in Indices(needles) :
         out[j + 1] = [valid |-> Row(needles, j).valid, v |-> "false"]

C9_Witness ==
  /\ Returned_multi /\ is_empty(haystack) /\ size(needles) = 2
  /\ haystack.type = "LIST"
  /\ NullRows(needles) = {0}
  /\ out[1] = [valid |-> FALSE, v |-> "false"]

LeafCall == haystack.type \in LeafTypes /\ haystack.type = needles.type

InHaystack(j) ==
  \E i \in Indices(haystack) :
    Row(haystack, i).valid /\ EqVal(haystack.type, Row(haystack, i).v, Row(needles, j).v)

\* C10 as stated: over a leaf type, the payload at every null needle row is true
\* and the payload at every valid needle row is true exactly when the haystack
\* holds the needle's value.
C10_Original ==
  (Returned_multi /\ LeafCall) =>
    \A j \in Indices(needles) :
      IF Row(needles, j).valid
      THEN out[j + 1].v = Bool(InHaystack(j))
      ELSE out[j + 1].v = "true"

\* C10 amended: over a leaf type, the payload at every null needle row is true
\* when the haystack is not empty (and false when it is), and the payload at
\* every valid needle row is true exactly when the haystack holds the needle's
\* value.
C10_NullNeedleContained ==
  (Returned_multi /\ LeafCall) =>
    \A j \in Indices(needles) :
      IF Row(needles, j).valid
      THEN out[j + 1].v = Bool(InHaystack(j))
      ELSE out[j + 1].v = Bool(~is_empty(haystack))

\* a null needle whose stored value is not in the haystack, and a valid needle
\* whose value is stored in the haystack only under a null row
C10_Witness ==
  /\ Returned_multi /\ LeafCall
  /\ haystack.rows = <<Null(1)>>
  /\ needles.rows = <<Null(1), Valid(1)>>
  /\ out[1].v = "true" /\ out[2].v = "false"

(* ------------------ equivalence of the implementations ----------------- *)

\* haystack_map after the insert of the haystack rows i, i + 1, ... in this order
RECURSIVE insert_all(_, _, _, _, _)
insert_all(im, hay, nd, map, i) ==
  IF i >= size(hay) THEN map
  ELSE insert_all(im, hay, nd,
                  static_map_insert(map, i, build_hasher(im, hay, nd, i),
                                    build_equal(im, hay, nd, map, i)),
                  i + 1)

\* the column multi_contains_nested_elements of search/contains_nested.cu returns
multi_contains_nested_elements(hay, nd) ==
  LET im == "search/contains_nested.cu"
      res == make_result(nd)
      map == insert_all(im, hay, nd, EmptyMap(compute_hash_table_size(size(hay))), 0)
      h(j) == CHOOSE x \in probe_hashes(im, hay, nd, needles_it(im, j)) : TRUE
      found(j) == static_map_contains(map, h(j),
                    probe_equal(im, hay, nd, map, needles_it(im, j)))
  IN IF is_empty(nd) THEN res
     ELSE IF is_empty(hay) THEN fill_false(res)
     ELSE [j \in 1..size(nd) |-> [res[j] EXCEPT !.v = Bool(found(j - 1))]]

\* C11: the implementations of multi_contains_nested_elements are functionally
\* equivalent: for every haystack and needles of the same nested type, the
\* column returned by any of them (payload and null mask) is the column that
\* the implementation of search/contains_nested.cu returns.
C11_ImplsEquivalent ==
  (Returned_multi /\ NestedCall) =>
    out = multi_contains_nested_elements(haystack, needles)

(* --------------------------- further claims ---------------------------- *)

\* the type of the haystack's elements: the type of the keys for a dictionary
element_type(col) == IF col.type = "DICTIONARY32" THEN "INT32" ELSE col.type

\* C12: a call contains(haystack, needle) whose haystack element type differs
\* from the needle's type ends in a usage error and returns no result, for
\* every haystack size (an empty haystack included) and every needle validity
\* (a null needle included).
C12_TypeMismatchError ==
  (Returned("contains") /\ element_type(haystack) # needle.type) => result = "error"

\* field k of struct rows a and b agree: both null, or both valid with one value
FieldsAgree(a, b, k) ==
  /\ a.f[k].valid = b.f[k].valid
  /\ a.f[k].valid => a.f[k].v = b.f[k].v

\* C13: struct row equality: a valid struct needle is contained in a struct
\* haystack exactly when some haystack row is a non-null struct all of whose
\* fields agree with the needle's; a null struct row never equals the needle,
\* whatever its fields hold, and a null field equals only a null field.
C13_StructEquality ==
  (/\ pc = "done" /\ entry \in {"contains", "structs::contains"}
   /\ haystack.type = "STRUCT" /\ needle.type = "STRUCT"
   /\ ~is_empty(haystack) /\ needle.valid)
    => result = Bool(\E i \in Indices(haystack) :
                       /\ Row(haystack, i).valid
                       /\ \A k \in 1..2 : FieldsAgree(Row(haystack, i), needle.row, k))

\* a needle with all fields null against a haystack of null struct rows only,
\* with null and with valid fields under them
C13_Witness ==
  /\ Returned("structs::contains") /\ needle.valid
  /\ size(haystack) = 2 /\ NullRows(haystack) = {0, 1}
  /\ Row(haystack, 0).f # Row(haystack, 1).f
  /\ \A k \in 1..2 : ~needle.row.f[k].valid
  /\ result = "false"

\* elements a and b agree: both null, or both valid with one value
ElemsAgree(a, b) == a.valid = b.valid /\ (a.valid => a.v = b.v)

\* C14: list row equality is length- and order-sensitive: a valid list needle
\* is contained in a list haystack exactly when some non-null haystack row has
\* the needle's length and agrees with it element by element, in order.
C14_ListEquality ==
  (/\ Returned("contains") /\ haystack.type = "LIST" /\ needle.type = "LIST"
   /\ ~is_empty(haystack) /\ needle.valid)
    => result = Bool(\E i \in Indices(haystack) :
                       /\ Row(haystack, i).valid
                       /\ Len(Row(haystack, i).e) = Len(needle.row.e)
                       /\ \A k \in 1..Len(needle.row.e) :
                            ElemsAgree(Row(haystack, i).e[k], needle.row.e[k]))

\* the needle [1, 2] against the rows [2, 1] and [1]: a permutation and a prefix
C14_Witness ==
  /\ Returned("contains")
  /\ needle = Scalar("LIST", TRUE, [valid |-> TRUE, e |-> <<Valid(1), Valid(2)>>])
  /\ haystack.rows = <<[valid |-> TRUE, e |-> <<Valid(2), Valid(1)>>],
                       [valid |-> TRUE, e |-> <<Valid(1)>>]>>
  /\ result = "false"

\* elements a and b have one logical content: both null, whatever is stored
\* under them, or both valid with one value
SameElem(a, b) == a.valid = b.valid /\ (a.valid => a.v = b.v)

\* rows a and b of type t differ at most in what is stored under null elements
SameContent(t, a, b) ==
  /\ a.valid = b.valid
  /\ a.valid =>
       IF t = "STRUCT" THEN \A k \in 1..2 : SameElem(a.f[k], b.f[k])
       ELSE IF t = "LIST"
       THEN Len(a.e) = Len(b.e) /\ \A k \in 1..Len(a.e) : SameElem(a.e[k], b.e[k])
       ELSE a.v = b.v

\* C15: the row hash depends only on logical content: a haystack row and a
\* needles row that differ at most in the values stored underneath null
\* elements, at the top level or in a child, get the same hash from the
\* hashers that the build and the probe make for their columns.
C15_HashOfLogicalContent ==
  HashersBuilt =>
    \A i \in Indices(haystack), j \in Indices(needles) :
      SameContent(haystack.type, Row(haystack, i), Row(needles, j))
        => probe_hashes("search/contains_nested.cu", haystack, needles,
                        needles_it("search/contains_nested.cu", j))
             = {build_hasher("search/contains_nested.cu", haystack, needles, i)}

\* a null struct row over different fields, and a null field over different
\* stored values
C15_Witness ==
  /\ HashersBuilt /\ pc = "done" /\ haystack.type = "STRUCT"
  /\ size(haystack) = 2 /\ size(needles) = 1
  /\ ~Row(haystack, 0).valid /\ Row(haystack, 0).f = <<Valid(1), Valid(1)>>
  /\ Row(haystack, 1).valid /\ Row(haystack, 1).f[1] = Null(1)
  /\ Row(needles, 0).valid /\ Row(needles, 0).f[1] = Null(2)
  /\ SameContent("STRUCT", Row(haystack, 1), Row(needles, 0))

\* the rows of a dictionary column that refer to the key x
ReferringRows(col, x) ==
  {i \in Indices(col) : Row(col, i).valid /\ col.keys[Row(col, i).v + 1] = x}

\* C16: for a non-empty dictionary haystack and a valid needle, contains returns
\* false when the needle's value is not among the keys, and false when it is a
\* key that no row refers to; it returns true exactly when some row refers to
\* the needle's key.
C16_DictionaryScalar ==
  (/\ Returned("contains") /\ haystack.type = "DICTIONARY32"
   /\ ~is_empty(haystack) /\ needle.valid /\ needle.type = "INT32")
    => result = Bool(ReferringRows(haystack, needle.row.v) # {})

\* the dense column a dictionary column stands for
Decoded(dict) ==
  Column("INT32", [i \in 1..size(dict) |->
                     IF dict.rows[i].valid THEN Valid(dict.keys[dict.rows[i].v + 1])
                     ELSE Null(1)])

DictionaryCall == haystack.type = "DICTIONARY32" /\ needles.type = "DICTIONARY32"

\* C17: dictionary reconciliation: after add_keys(needles, haystack.keys) and
\* set_keys(haystack, needles_matched.keys) the two columns have one key
\* sequence, a haystack code equals a needles code exactly when the values
\* they stand for are equal, and batched contains returns the column that the
\* same call returns on the decoded columns.
C17_DictionaryReconciliation ==
  (Returned_multi /\ DictionaryCall) =>
    LET needles_matched == add_keys(needles, haystack.keys)
        haystack_matched == set_keys(haystack, needles_matched.keys)
    IN /\ haystack_matched.keys = needles_matched.keys
       /\ \A i \in Indices(haystack), j \in Indices(needles) :
            (Row(haystack, i).valid /\ Row(needles, j).valid) =>
              /\ Row(haystack_matched, i).valid /\ Row(needles_matched, j).valid
              /\ Row(haystack_matched, i).v = Row(needles_matched, j).v
                   <=> Row(Decoded(haystack), i).v = Row(Decoded(needles), j).v
       /\ out = multi_contains_leaf(Decoded(haystack), Decoded(needles))

\* disjoint key sets: the needle's value is not a key of the haystack
C17_Witness ==
  /\ Returned_multi /\ DictionaryCall
  /\ haystack.keys # <<>> /\ needles.keys # <<>>
  /\ Range(haystack.keys) \cap Range(needles.keys) = {}
  /\ size(haystack) = 1 /\ Row(haystack, 0).valid
  /\ size(needles) = 2 /\ NullRows(needles) = {1}
  /\ out[1].v = "false" /\ out[2].v = "true"

(* ------------------- the scan of thrust::find(_if) --------------------- *)

\* rows of a haystack that is scanned in intervals
MaxScanRows == 4
\* rows that one interval of thrust::find_if evaluates in parallel
IntervalSize == 2

\* as scan_pred, with the validity of the haystack row not looked at
scan_pred_any_validity(hay, s, idx) ==
  IF is_nested(hay.type)
  THEN two_table_comparator(hay, needle_as_col(s),
                            has_nested_nulls(hay) \/ has_nested_nulls(needle_as_col(s)),
                            idx, 0)
  ELSE EqVal(hay.type, Row(hay, idx).v, s.row.v)

\* the predicate of the scan on haystack row idx: operator== on the value, or
\* on the pair (value, validity), for a leaf type; the validity test and
\* d_comp(idx, 0) for a nested type
scan_pred(hay, s, idx) ==
  IF is_nested(hay.type)
  THEN LET needle_col == needle_as_col(s)
           check_nulls == has_nested_nulls(hay) \/ has_nested_nulls(needle_col)
           d_comp == two_table_comparator(hay, needle_col, check_nulls, idx, 0)
       IN IF has_nulls(hay) THEN Row(hay, idx).valid /\ d_comp ELSE d_comp
  ELSE IF has_nulls(hay)
       THEN EqVal(hay.type, Row(hay, idx).v, s.row.v) /\ Row(hay, idx).valid = TRUE
       ELSE EqVal(hay.type, Row(hay, idx).v, s.row.v)

\* the rows of the interval k of a scan over n rows
IntervalRows(n, k) ==
  {i \in 0..(n - 1) : k * IntervalSize <= i /\ i < (k + 1) * IntervalSize}

\* thrust::minimum on the positions found by two threads
minimum(a, b) == IF a <= b THEN a ELSE b

ScanHaystacks ==
  {Column("INT32", r) : r \in SeqsUpTo({Valid(1), Valid(2), Null(1)}, MaxScanRows)}
    \cup {Column("STRUCT", r) :
            r \in SeqsUpTo(StructRows({Valid(1), Null(1)}, {Valid(1), Valid(2)}), MaxRows + 1)}

InitScan ==
  /\ haystack \in ScanHaystacks
  /\ needle \in IF haystack.type = "INT32"
                THEN {Scalar("INT32", TRUE, Valid(1)), Scalar("INT32", FALSE, Valid(1))}
                ELSE {Scalar("STRUCT", TRUE, [valid |-> TRUE, f |-> <<a, Valid(1)>>]) :
                        a \in {Valid(1), Null(1)}}
  /\ needles = Column("INT32", <<>>)
  /\ entry = "none"
  /\ impl = "none"
  /\ pc = "start"
  /\ result = "none"
  /\ out = <<>>
  /\ haystack_map = <<>>
  /\ inserted = {}
  /\ probed = {}
  /\ lists = <<>>
  /\ search_key = <<>>
  /\ find_option = "none"
  /\ key_positions = <<>>
  /\ scan_found = 0
  /\ evaluated = {}
  /\ interval = 0
  /\ input = [type |-> "STRING", rows |-> <<>>, keys |-> <<>>]
  /\ target = [valid |-> FALSE, s |-> <<>>]
  /\ warp_done = {}

\* bool cudf::contains(column_view const& haystack, scalar const& needle), up
\* to the launch of the scan
ContainsBegin ==
  /\ pc = "start"
  /\ entry' = "contains"
  /\ IF is_empty(haystack)
     THEN result' = "false" /\ pc' = "done" /\ UNCHANGED scan_vars
     ELSE IF ~needle.valid
     THEN result' = Bool(has_nulls(haystack)) /\ pc' = "done" /\ UNCHANGED scan_vars
     ELSE IF haystack.type # needle.type
     THEN result' = "error" /\ pc' = "done" /\ UNCHANGED scan_vars
     ELSE /\ pc' = "scan"
          /\ scan_found' = size(haystack)
          /\ evaluated' = {}
          /\ interval' = 0
          /\ UNCHANGED result
  /\ UNCHANGED <<haystack, needle, needles, impl, out, haystack_map, inserted, probed>>
  /\ UNCHANGED lists_vars
  /\ UNCHANGED strings_vars

\* one thread of the scan evaluates the predicate on row idx of the interval,
\* and the reduction keeps the lowest position found
EvalRow(idx) ==
  /\ pc = "scan"
  /\ idx \in IntervalRows(size(haystack), interval) \ evaluated
  /\ evaluated' = evaluated \cup {idx}
  /\ scan_found' = IF scan_pred(haystack, needle, idx) THEN minimum(scan_found, idx)
                 ELSE scan_found
  /\ UNCHANGED <<haystack, needle, needles, entry, impl, pc, result, out,
                 haystack_map, inserted, probed, interval>>
  /\ UNCHANGED lists_vars
  /\ UNCHANGED strings_vars

\* the interval is done: the scan stops early when a row was found in it, and
\* goes on with the next interval when not; `found_it != end` is returned
IntervalEnd ==
  /\ pc = "scan"
  /\ IntervalRows(size(haystack), interval) \subseteq evaluated
  /\ IF scan_found # size(haystack) \/ (interval + 1) * IntervalSize >= size(haystack)
     THEN /\ result' = Bool(scan_found # size(haystack))
          /\ pc' = "done"
          /\ UNCHANGED interval
     ELSE /\ interval' = interval + 1
          /\ UNCHANGED <<result, pc>>
  /\ UNCHANGED <<haystack, needle, needles, entry, impl, out, haystack_map,
                 inserted, probed, scan_found, evaluated>>
  /\ UNCHANGED lists_vars
  /\ UNCHANGED strings_vars

NextScan ==
  \/ ContainsBegin
  \/ \E idx \in 0..(MaxScanRows - 1) : EvalRow(idx)
  \/ IntervalEnd

SpecScan == InitScan /\ [][NextScan]_vars

\* C23: the scalar-needle containment result does not depend on scheduling:
\* under every interleaving of the per-row evaluations of the predicate, and
\* wherever the scan stops, contains returns what the sequential scan of the
\* rows 0..size-1 returns, and the position the scan ends with is the lowest
\* matching row index (the size of the haystack when no row matches).
C23_ScanDeterministic ==
  (pc = "done" /\ entry = "contains") =>
    /\ result = contains_scalar(haystack, needle)
    /\ (~is_empty(haystack) /\ needle.valid)
         => scan_found = find_if(size(haystack), MatchingRows)

\* rows 1 and 3 match, and the scan stopped after the first interval without a
\* look at rows 2 and 3
C23_Witness ==
  /\ pc = "done" /\ entry = "contains"
  /\ size(haystack) = 4 /\ MatchingRows = {1, 3}
  /\ evaluated = {0, 1}
  /\ scan_found = 1 /\ result = "true"

(* ------------------- lists::index_of, lists::contains ------------------ *)

\* A lists column is [type, child, offsets, valid]: type is the type of the
\* child column, and row i is the range [offsets[i], offsets[i + 1]) of the
\* child column (sequences hold index k at position k + 1). A search key is
\* [kind |-> "scalar", type, valid, v] or [kind |-> "column", type, rows].

NOT_FOUND_IDX == -1

lists_size(l) == Len(l.valid)

lists_has_nulls(l) == \E i \in 1..lists_size(l) : ~l.valid[i]

child_has_nulls(l) == \E k \in 1..Len(l.child) : ~l.child[k].valid

\* the child index under the iterator k steps after list_begin: a counting
\* iterator from the list's first offset, or a reverse iterator from its end
list_begin(option, list_offsets, list_idx, k) ==
  IF option = "FIND_FIRST" THEN list_offsets[list_idx + 1] + k
  ELSE (list_offsets[list_idx + 2] - 1) - k

\* the number of steps from list_begin to list_end
list_end(option, list_offsets, list_idx) ==
  list_offsets[list_idx + 2] - list_offsets[list_idx + 1]

\* as distance, with the child index of the element found instead of its
\* position within the list
distance_in_child(option, list_offsets, list_idx, found_iter) ==
  IF found_iter = list_end(option, list_offsets, list_idx) THEN NOT_FOUND_IDX
  ELSE list_begin(option, list_offsets, list_idx, found_iter)

\* found_iter and the result of list_end are in steps from list_begin
distance(option, list_offsets, list_idx, found_iter) ==
  IF found_iter = list_end(option, list_offsets, list_idx) THEN NOT_FOUND_IDX
  ELSE IF option = "FIND_FIRST" THEN found_iter - 0
  ELSE (list_end(option, list_offsets, list_idx) - found_iter) - 1

\* search_functor for a non-struct Type
search_functor(option, child_nulls, input_child, list_offsets, list_idx, key) ==
  LET end == list_end(option, list_offsets, list_idx)
      pred(k) == LET idx == list_begin(option, list_offsets, list_idx, k)
                     element == input_child[idx + 1].v
                     is_valid == ~child_nulls \/ input_child[idx + 1].valid
                 IN is_valid /\ element = key
      found_iter == find_if(end, {k \in 0..(end - 1) : pred(k)})
  IN distance(option, list_offsets, list_idx, found_iter)

\* the pair (search key, validity) for a row: the scalar, or the key column's row
search_key_pair(key, row_index) ==
  IF key.kind = "scalar" THEN [v |-> key.v, valid |-> key.valid]
  ELSE key.rows[row_index + 1]

\* as search_all_lists, with a null list searched like an empty one
search_all_lists_null_as_empty(l, key, search_keys_have_nulls, option) ==
  [r \in 1..lists_size(l) |->
     LET row_index == r - 1
         pair == search_key_pair(key, row_index)
     IN IF search_keys_have_nulls /\ ~pair.valid
        THEN [v |-> NOT_FOUND_IDX, valid |-> FALSE]
        ELSE [v |-> search_functor(option, child_has_nulls(l), l.child, l.offsets,
                                   row_index, pair.v),
              valid |-> TRUE]]

\* search_all_lists: the pair (position, validity) of every row
search_all_lists(l, key, search_keys_have_nulls, option) ==
  [r \in 1..lists_size(l) |->
     LET row_index == r - 1
         pair == search_key_pair(key, row_index)
     IN IF search_keys_have_nulls /\ ~pair.valid
        THEN [v |-> NOT_FOUND_IDX, valid |-> FALSE]
        ELSE IF ~l.valid[r] THEN [v |-> NOT_FOUND_IDX, valid |-> FALSE]
        ELSE [v |-> search_functor(option, child_has_nulls(l), l.child, l.offsets,
                                   row_index, pair.v),
              valid |-> TRUE]]

\* a failed CUDF_EXPECTS, and the column a call returns
Failure == [error |-> TRUE, rows |-> <<>>]

Returns(rows) == [error |-> FALSE, rows |-> rows]

\* the position that stands for a payload allocated and never written
Uninit == NOT_FOUND_IDX - 1

\* is_supported<ElementType>(): the types lookup_functor is enabled for
is_supported(t) == t \in {"INT32", "STRUCT"}

\* as lookup_functor, with the type of the key not compared with the child's
lookup_functor_any_key_type(l, key, search_keys_have_nulls, option) ==
  IF key.kind = "column" /\ Len(key.rows) # lists_size(l) THEN Failure
  ELSE IF is_nested(l.type) /\ l.type # "STRUCT" THEN Failure
  ELSE IF key.type = "EMPTY" THEN Failure
  ELSE IF key.kind = "scalar" /\ search_keys_have_nulls
  THEN Returns([r \in 1..lists_size(l) |-> [v |-> Uninit, valid |-> FALSE]])
  ELSE LET out_pairs == search_all_lists(l, key, search_keys_have_nulls, option)
       IN IF search_keys_have_nulls \/ lists_has_nulls(l) \/ child_has_nulls(l)
          THEN Returns(out_pairs)
          ELSE Returns([r \in 1..lists_size(l) |-> [out_pairs[r] EXCEPT !.valid = TRUE]])

\* lookup_functor::operator()
lookup_functor(l, key, search_keys_have_nulls, option) ==
  IF key.kind = "column" /\ Len(key.rows) # lists_size(l) THEN Failure
  ELSE IF is_nested(l.type) /\ l.type # "STRUCT" THEN Failure
  ELSE IF l.type # key.type THEN Failure
  ELSE IF key.type = "EMPTY" THEN Failure
  ELSE IF key.kind = "scalar" /\ search_keys_have_nulls
  THEN Returns([r \in 1..lists_size(l) |-> [v |-> Uninit, valid |-> FALSE]])
  ELSE LET out_pairs == search_all_lists(l, key, search_keys_have_nulls, option)
       IN IF search_keys_have_nulls \/ lists_has_nulls(l) \/ child_has_nulls(l)
          THEN Returns(out_pairs)
          ELSE Returns([r \in 1..lists_size(l) |-> [out_pairs[r] EXCEPT !.valid = TRUE]])

\* cudf::lists::detail::index_of, with a scalar and with a column of keys
index_of(l, key, option) ==
  IF key.kind = "scalar"
  THEN (IF is_supported(key.type) THEN lookup_functor(l, key, ~key.valid, option)
        ELSE Failure)
  ELSE IF Len(key.rows) # lists_size(l) THEN Failure
  ELSE IF is_supported(key.type)
  THEN lookup_functor(l, key, \E r \in 1..Len(key.rows) : ~key.rows[r].valid, option)
  ELSE Failure

\* as to_contains, with the null mask of the positions left behind
to_contains_no_mask(positions) ==
  [r \in 1..Len(positions) |->
     [v |-> Bool(positions[r].v # NOT_FOUND_IDX), valid |-> TRUE]]

\* to_contains: position != NOT_FOUND_IDX, under the null mask of the positions
to_contains(positions) ==
  [r \in 1..Len(positions) |->
     [v |-> Bool(positions[r].v # NOT_FOUND_IDX), valid |-> positions[r].valid]]

\* what a payload that was never written can hold
Garbage == {NOT_FOUND_IDX, 0}

\* the columns that a column with unwritten payloads can be read as
Readings(col) ==
  {[r \in 1..Len(col) |-> IF col[r].v = Uninit THEN [col[r] EXCEPT !.v = g[r]] ELSE col[r]] :
     g \in [1..Len(col) -> Garbage]}

\* list_device_view::is_null(i): element i of list row list_idx is null
list_is_null_at(l, list_idx, i) == ~l.child[l.offsets[list_idx + 1] + i + 1].valid

\* list_device_view::size()
list_size(l, list_idx) == l.offsets[list_idx + 2] - l.offsets[list_idx + 1]

\* as contains_nulls, with the elements looked at and not the list row itself
contains_nulls_elements_only(l) ==
  [r \in 1..lists_size(l) |->
     LET list_idx == r - 1
     IN [v |-> Bool(\E i \in 0..(list_size(l, list_idx) - 1) :
                      list_is_null_at(l, list_idx, i)),
         valid |-> l.valid[r]]]

\* cudf::lists::detail::contains_nulls: the payload from thrust::tabulate, the
\* null mask from valid_if(not list.is_null())
contains_nulls(l) ==
  [r \in 1..lists_size(l) |->
     LET list_idx == r - 1
     IN [v |-> Bool(~l.valid[r]
                    \/ \E i \in 0..(list_size(l, list_idx) - 1) :
                         list_is_null_at(l, list_idx, i)),
         valid |-> l.valid[r]]]

(* ------------------------- lists specification ------------------------- *)

\* the elements of the child column and of a column of keys
ListElems == {Valid(x) : x \in Vals("INT32")} \cup {Null(1)}

\* the offsets of n rows over a child of c elements
OffsetsOf(n, c) ==
  {o \in [1..(n + 1) -> 0..c] :
     /\ o[1] = 0
     /\ o[n + 1] = c
     /\ \A i \in 1..n : o[i] <= o[i + 1]}

\* the lists columns of n rows
ListsColumns(n) ==
  UNION {{[type |-> "INT32", child |-> ch, offsets |-> o, valid |-> m] :
            o \in OffsetsOf(n, Len(ch)), m \in SeqsOf(BOOLEAN, n)} :
         ch \in IF n = 0 THEN {<<>>} ELSE SeqsUpTo(ListElems, MaxTotal)}

SearchKeys(n) ==
  {[kind |-> "scalar", type |-> "INT32", valid |-> TRUE, v |-> x] : x \in Vals("INT32")}
    \cup {[kind |-> "scalar", type |-> "INT32", valid |-> FALSE, v |-> 1]}
    \cup {[kind |-> "column", type |-> "INT32", rows |-> r] : r \in SeqsOf(ListElems, n)}
    \cup {[kind |-> "column", type |-> "INT32", rows |-> r] :
            r \in IF n = 1 THEN SeqsOf(ListElems, 0) ELSE {}}

\* the types of a child column and of a search key
ElementTypes == {"INT32", "STRUCT", "LIST", "EMPTY"}

\* the lists column of n empty lists over a child of type t, null rows or not
TypedLists(t, n) ==
  {[type |-> t, child |-> <<>>, offsets |-> [i \in 1..(n + 1) |-> 0],
    valid |-> [i \in 1..n |-> b]] : b \in BOOLEAN}

\* the search keys of type u for n rows: a scalar, valid or not, and a column
TypedKeys(u, n) ==
  {[kind |-> "scalar", type |-> u, valid |-> b, v |-> 1] : b \in BOOLEAN}
    \cup {[kind |-> "column", type |-> u, rows |-> [i \in 1..n |-> Valid(1)]]}

\* the lists [[], null, [1, null], [2]]
StructuralScenario ==
  [type |-> "INT32", child |-> <<Valid(1), Null(1), Valid(2)>>,
   offsets |-> <<0, 0, 0, 2, 3>>,
   valid |-> <<TRUE, FALSE, TRUE, TRUE>>]

InitLists ==
  /\ \/ \E n \in 0..MaxRows :
          /\ lists \in ListsColumns(n)
          /\ search_key \in SearchKeys(n)
     \/ /\ lists = StructuralScenario
        /\ search_key \in {k \in SearchKeys(0) : k.kind = "scalar"}
     \/ \E n \in 0..MaxRows, t \in ElementTypes, u \in ElementTypes :
          /\ t # "INT32" \/ u # "INT32"
          /\ ~(t = "STRUCT" /\ u = "STRUCT")
          /\ lists \in TypedLists(t, n)
          /\ search_key \in TypedKeys(u, n)
  /\ find_option = "none"
  /\ key_positions = <<>>
  /\ scan_found = 0
  /\ evaluated = {}
  /\ interval = 0
  /\ input = [type |-> "STRING", rows |-> <<>>, keys |-> <<>>]
  /\ target = [valid |-> FALSE, s |-> <<>>]
  /\ warp_done = {}
  /\ haystack = Column("INT32", <<>>)
  /\ needle = Scalar("INT32", FALSE, Valid(1))
  /\ needles = Column("INT32", <<>>)
  /\ entry = "none"
  /\ impl = "none"
  /\ pc = "start"
  /\ result = "none"
  /\ out = <<>>
  /\ haystack_map = <<>>
  /\ inserted = {}
  /\ probed = {}

\* std::unique_ptr<column> cudf::lists::index_of(lists, search_key(s), find_option)
IndexOf(option) ==
  /\ pc = "start"
  /\ entry' = "lists::index_of"
  /\ find_option' = option
  /\ LET positions == index_of(lists, search_key, option)
     IN IF positions.error
        THEN pc' = "error" /\ UNCHANGED key_positions
        ELSE pc' = "done" /\ key_positions' \in Readings(positions.rows)
  /\ UNCHANGED <<haystack, needle, needles, impl, result, out, haystack_map,
                 inserted, probed, lists, search_key>>
  /\ UNCHANGED scan_vars
  /\ UNCHANGED strings_vars

\* std::unique_ptr<column> cudf::lists::contains(lists, search_key(s)):
\* to_contains(index_of(lists, search_key(s), FIND_FIRST))
ListsContains ==
  /\ pc = "start"
  /\ entry' = "lists::contains"
  /\ find_option' = "FIND_FIRST"
  /\ LET positions == index_of(lists, search_key, "FIND_FIRST")
     IN IF positions.error
        THEN pc' = "error" /\ UNCHANGED <<key_positions, out>>
        ELSE /\ pc' = "done"
             /\ key_positions' \in Readings(positions.rows)
             /\ out' = to_contains(key_positions')
  /\ UNCHANGED <<haystack, needle, needles, impl, result, haystack_map,
                 inserted, probed, lists, search_key>>
  /\ UNCHANGED scan_vars
  /\ UNCHANGED strings_vars

\* std::unique_ptr<column> cudf::lists::contains_nulls(lists)
ContainsNulls ==
  /\ pc = "start"
  /\ entry' = "lists::contains_nulls"
  /\ out' = contains_nulls(lists)
  /\ pc' = "done"
  /\ UNCHANGED <<haystack, needle, needles, impl, result, haystack_map,
                 inserted, probed, lists, search_key, find_option, key_positions>>
  /\ UNCHANGED scan_vars
  /\ UNCHANGED strings_vars

NextLists ==
  \/ \E option \in {"FIND_FIRST", "FIND_LAST"} : IndexOf(option)
  \/ ListsContains
  \/ ContainsNulls

SpecLists == InitLists /\ [][NextLists]_vars

(* -------------------------- strings::contains -------------------------- *)

\* A strings column is a column of rows [valid, s], s the sequence of the
\* bytes of the string (empty under a null); a string scalar is [valid, s].

\* bytes of the longest string of a column
MaxStrLen == 3
\* threads of a warp (32 in the program)
warp_size == 2
\* the average number of bytes per row above which contains() takes the
\* warp-parallel path (64 in the program)
AVG_CHAR_BYTES_THRESHOLD == 1

Bytes == {1, 2}

size_bytes(str) == Len(str)

\* d_target.compare(d_str.data() + i, d_target.size_bytes()) == 0
compare_at(d_target, d_str, i) ==
  SubSeq(d_str, i + 1, i + size_bytes(d_target)) = d_target

\* d_string.find(d_target) != string_view::npos
string_find(d_string, d_target) ==
  \E i \in 0..(size_bytes(d_string) - size_bytes(d_target)) :
    compare_at(d_target, d_string, i)

\* strings_column_view::chars_size(): the bytes of all rows
RECURSIVE chars_size_to(_, _)
chars_size_to(col, n) ==
  IF n = 0 THEN 0 ELSE chars_size_to(col, n - 1) + size_bytes(col.rows[n].s)

chars_size(col) == chars_size_to(col, size(col))

\* the offsets into d_str that the loop of thread idx of the warp visits
warp_offsets(idx, d_target, d_str) ==
  {i \in 0..size_bytes(d_str) :
     /\ i % warp_size = idx % warp_size
     /\ (i + size_bytes(d_target)) < size_bytes(d_str)}

\* contains_warp_fn: what thread idx finds in its part of the string
warp_found(idx, d_target, d_str) ==
  \E i \in warp_offsets(idx, d_target, d_str) : compare_at(d_target, d_str, i)

\* contains_fn(strings, target, pfn) with pfn = find(d_target) != npos
contains_fn(strings, tgt) ==
  IF size(strings) = 0 THEN Returns(<<>>)
  ELSE IF ~tgt.valid THEN Failure
  ELSE IF size_bytes(tgt.s) = 0
  THEN Returns([r \in 1..size(strings) |-> [v |-> "true", valid |-> strings.rows[r].valid]])
  ELSE Returns([r \in 1..size(strings) |->
                  [v |-> IF strings.rows[r].valid
                         THEN Bool(string_find(strings.rows[r].s, tgt.s))
                         ELSE "false",
                   valid |-> strings.rows[r].valid]])

\* contains_warp_parallel, up to the launch of the warps: the results filled
\* with d_target.empty() under the null mask of the input
warp_parallel_fill(strings, tgt) ==
  [r \in 1..size(strings) |->
     [v |-> Bool(size_bytes(tgt.s) = 0), valid |-> strings.rows[r].valid]]

\* the average string width is greater than the threshold
use_warp_parallel(strings) ==
  ~is_empty(strings) /\ (chars_size(strings) \div size(strings)) > AVG_CHAR_BYTES_THRESHOLD

StringRows ==
  {[valid |-> TRUE, s |-> str] : str \in SeqsUpTo(Bytes, MaxStrLen)}
    \cup {[valid |-> FALSE, s |-> <<>>]}

Targets ==
  {[valid |-> TRUE, s |-> str] : str \in SeqsUpTo(Bytes, MaxStrLen - 1)}
    \cup {[valid |-> FALSE, s |-> <<>>]}

InitStrings ==
  /\ input \in {Column("STRING", r) : r \in SeqsUpTo(StringRows, MaxRows)}
  /\ target \in Targets
  /\ warp_done = {}
  /\ haystack = Column("INT32", <<>>)
  /\ needle = Scalar("INT32", FALSE, Valid(1))
  /\ needles = Column("INT32", <<>>)
  /\ entry = "none"
  /\ impl = "none"
  /\ pc = "start"
  /\ result = "none"
  /\ out = <<>>
  /\ haystack_map = <<>>
  /\ inserted = {}
  /\ probed = {}
  /\ lists = <<>>
  /\ search_key = <<>>
  /\ find_option = "none"
  /\ key_positions = <<>>
  /\ scan_found = 0
  /\ evaluated = {}
  /\ interval = 0

\* std::unique_ptr<column> cudf::strings::detail::contains(input, target): all
\* of the string-parallel path, and the warp-parallel path up to the launch
StringsContains ==
  /\ pc = "start"
  /\ entry' = "strings::contains"
  /\ IF use_warp_parallel(input)
     THEN IF ~target.valid
          THEN pc' = "error" /\ UNCHANGED <<out, impl>>
          ELSE /\ out' = warp_parallel_fill(input, target)
               /\ impl' = "contains_warp_parallel"
               /\ pc' = IF size_bytes(target.s) = 0 THEN "done" ELSE "warp"
     ELSE LET results == contains_fn(input, target)
          IN IF results.error
             THEN pc' = "error" /\ UNCHANGED <<out, impl>>
             ELSE out' = results.rows /\ impl' = "contains_fn" /\ pc' = "done"
  /\ UNCHANGED <<haystack, needle, needles, result, haystack_map, inserted, probed,
                 input, target, warp_done>>
  /\ UNCHANGED lists_vars
  /\ UNCHANGED scan_vars

\* contains_warp_fn::operator()(idx): one thread of the warp of a row
WarpThread(idx) ==
  /\ pc = "warp"
  /\ idx \in 0..(size(input) * warp_size - 1) \ warp_done
  /\ LET str_idx == idx \div warp_size
     IN IF ~Row(input, str_idx).valid THEN UNCHANGED out
        ELSE IF warp_found(idx, target.s, Row(input, str_idx).s)
        THEN out' = [out EXCEPT ![str_idx + 1].v = "true"]
        ELSE UNCHANGED out
  /\ warp_done' = warp_done \cup {idx}
  /\ pc' = IF warp_done' = 0..(size(input) * warp_size - 1) THEN "done" ELSE "warp"
  /\ UNCHANGED <<haystack, needle, needles, entry, impl, result, haystack_map,
                 inserted, probed, input, target>>
  /\ UNCHANGED lists_vars
  /\ UNCHANGED scan_vars

NextStrings ==
  \/ StringsContains
  \/ \E idx \in 0..(MaxRows * warp_size - 1) : WarpThread(idx)

SpecStrings == InitStrings /\ [][NextStrings]_vars

\* the target occurs in str as a sequence of bytes, at any offset
Occurs(tgt, str) ==
  \E i \in 0..(Len(str) - Len(tgt)) :
    \A k \in 1..Len(tgt) : str[i + k] = tgt[k]

\* C30: strings::contains gives one result on both paths: for a valid target
\* and every non-null row, the result of the row is true exactly when the
\* target occurs in the row as a byte substring at any offset, a match at the
\* end of the row and the whole row included, on the warp-parallel path as on
\* the string-parallel path and under every interleaving of the threads.
C30_PathsAgree ==
  (pc = "done" /\ entry = "strings::contains" /\ target.valid) =>
    /\ Len(out) = size(input)
    /\ \A r \in 1..size(input) :
         input.rows[r].valid => out[r].v = Bool(Occurs(target.s, input.rows[r].s))

(* ---------------------------- lists claims ----------------------------- *)

Returned_lists(e) == pc = "done" /\ entry = e

ListRows0 == 0..(lists_size(lists) - 1)

\* the search key of row r is valid
KeyValid(r) == search_key_pair(search_key, r).valid

\* the elements of list row r, in order
ListElements(r) ==
  SubSeq(lists.child, lists.offsets[r + 1] + 1, lists.offsets[r + 2])

\* the positions within list row r of the valid elements equal to the row's key
KeyPositions(r) ==
  {p \in 0..(Len(ListElements(r)) - 1) :
     /\ ListElements(r)[p + 1].valid
     /\ ListElements(r)[p + 1].v = search_key_pair(search_key, r).v}

Lowest(S) == CHOOSE x \in S : \A y \in S : x <= y

Highest(S) == CHOOSE x \in S : \A y \in S : x >= y

C19_NotFound ==
  Returned_lists("lists::index_of") =>
    \A r \in ListRows0 :
      /\ (~KeyValid(r) \/ ~lists.valid[r + 1] \/ KeyPositions(r) = {})
           => key_positions[r + 1].v = NOT_FOUND_IDX
      /\ ~KeyValid(r) => ~key_positions[r + 1].valid

\* C20: lists::contains is derived from index_of with FIND_FIRST: the column it
\* returns has, for every row, the payload true exactly when the position
\* index_of gives is not -1, and the row is null exactly when the row of
\* index_of is null.
C20_ContainsFromIndexOf ==
  Returned_lists("lists::contains") =>
    /\ key_positions \in Readings(index_of(lists, search_key, "FIND_FIRST").rows)
    /\ Len(out) = Len(key_positions)
    /\ \A r \in 1..Len(out) :
         /\ out[r].v = Bool(key_positions[r].v # -1)
         /\ out[r].valid = key_positions[r].valid

\* a key column with a null: a list that holds its key, and a null output row
C20_Witness ==
  /\ Returned_lists("lists::contains")
  /\ search_key.kind = "column" /\ lists_size(lists) = 2
  /\ KeyValid(0) /\ ~KeyValid(1)
  /\ lists.valid = <<TRUE, TRUE>>
  /\ KeyPositions(0) # {}
  /\ out = <<[v |-> "true", valid |-> TRUE], [v |-> "false", valid |-> FALSE]>>

\* list row r is null or holds a null element
HasNull(r) ==
  ~lists.valid[r + 1] \/ \E k \in 1..Len(ListElements(r)) : ~ListElements(r)[k].valid

\* C21 as stated: contains_nulls gives one boolean per list row, true exactly
\* when the list is null or holds a null element; the row of a null list reads
\* true.
C21_Original ==
  Returned_lists("lists::contains_nulls") =>
    /\ Len(out) = lists_size(lists)
    /\ \A r \in ListRows0 : out[r + 1] = [v |-> Bool(HasNull(r)), valid |-> TRUE]

\* C21 amended: contains_nulls stores, per list row, true exactly when the list
\* is null or holds a null element, and the output row of a null list is null
\* (true is stored under it); every other row is valid.
C21_ContainsNulls ==
  Returned_lists("lists::contains_nulls") =>
    /\ Len(out) = lists_size(lists)
    /\ \A r \in ListRows0 :
         out[r + 1] = [v |-> Bool(HasNull(r)), valid |-> lists.valid[r + 1]]

\* the lists [[], null, [1, null], [2]]
C21_Witness ==
  /\ Returned_lists("lists::contains_nulls")
  /\ lists = StructuralScenario
  /\ out = <<[v |-> "false", valid |-> TRUE], [v |-> "true", valid |-> FALSE],
             [v |-> "true", valid |-> TRUE], [v |-> "false", valid |-> TRUE]>>

\* the call breaks a usage rule of the list search
UsageError ==
  \/ is_nested(lists.type) /\ lists.type # "STRUCT"
  \/ lists.type # search_key.type
  \/ search_key.type = "EMPTY"
  \/ search_key.kind = "column" /\ Len(search_key.rows) # lists_size(lists)

EqualUnder(nulls_equal) ==
  {i \in Indices(haystack) :
     RowEq(haystack.type, TRUE, nulls_equal, Row(haystack, i), needle.row)}

IndexBuilt == NestedCall /\ pc \in {"build", "probe", "done"} /\ haystack_map # <<>>

\* the stored row indices whose haystack row equals haystack row i
Representatives(i) ==
  {k \in Keys(haystack_map) :
     RowEq(haystack.type, TRUE, NullsEqual, Row(haystack, k), Row(haystack, i))}

\* C24: under every interleaving of the inserts, every inserted haystack row
\* has a retrievable representative: the probe sequence that starts at the
\* hash of row i, with a key equality satisfied by the rows equal to row i,
\* ends at a slot that holds the index of a row equal to row i; after the
\* build this holds for every haystack row.
C24_RepresentativeRetrievable ==
  IndexBuilt =>
    /\ pc \in {"probe", "done"} => inserted = Indices(haystack)
    /\ \A i \in inserted :
         LET h == build_hasher(impl, haystack, needles, i)
         IN /\ static_map_contains(haystack_map, h, Representatives(i))
            /\ haystack_map[FindSlot(haystack_map, h, Representatives(i))]
                 \in Representatives(i)

\* two different rows with one hash: row 1 took the slot of the hash first and
\* row 0 the next one
C24_Witness ==
  /\ IndexBuilt /\ pc = "probe" /\ size(haystack) = 2
  /\ build_hasher(impl, haystack, needles, 0) = build_hasher(impl, haystack, needles, 1)
  /\ Representatives(0) = {0} /\ Representatives(1) = {1}
  /\ FindSlot(haystack_map, build_hasher(impl, haystack, needles, 1), {}) # 1
  /\ haystack_map[FindSlot(haystack_map, build_hasher(impl, haystack, needles, 1), {1})] = 1
  /\ haystack_map[FindSlot(haystack_map, build_hasher(impl, haystack, needles, 1), {0, 1})] = 1

StopSlots(map, h, equal) ==
  {d \in 0..(Len(map) - 1) :
     \/ map[((h + d) % Len(map)) + 1] = COMPACTION_EMPTY_KEY_SENTINEL
     \/ map[((h + d) % Len(map)) + 1] \in equal}

\* C26: every insert and every probe terminates: the index has more slots than
\* the haystack has rows, so during and after the build at least one slot is
\* empty, and the probe sequence from any hash, for a key equal to no stored
\* key as well, reaches a slot to stop at.
C26_ProbeTerminates ==
  IndexBuilt =>
    /\ Len(haystack_map) > size(haystack)
    /\ Cardinality(Keys(haystack_map)) <= Cardinality(inserted)
    /\ \E s \in 1..Len(haystack_map) : haystack_map[s] = COMPACTION_EMPTY_KEY_SENTINEL
    /\ \A h \in 0..(HashMod - 1) : StopSlots(haystack_map, h, {}) # {}

\* every haystack row is stored, and a needle equal to none of them was looked
\* up and not found
C26_Witness ==
  /\ IndexBuilt /\ pc = "done" /\ impl = "search/contains_nested.cu"
  /\ size(haystack) = 2 /\ Keys(haystack_map) = {0, 1}
  /\ size(needles) = 1 /\ Row(needles, 0).valid
  /\ \A i \in Indices(haystack) : ~EqualRows(i, 0)
  /\ out[1].v = "false"

\* C28: the negative encoding of the needle rows is decoded exactly: the probe
\* supplies the needle at position k as the index -(k+1), in
\* [-needles.size(), -1]; for every haystack row i, in either order of the
\* arguments, table_comparator_adapter calls the comparator with the lhs
\* index i and the rhs index k; the needles hasher is called with the row
\* index k; no index is outside its column. The implementations meant are those
\* that probe through table_comparator_adapter.
C28_NegativeIndexDecoding ==
  (HashersBuilt /\ impl \in {"search/contains_nested.cu", "unnamed/part_001"}) =>
    \A k \in Indices(needles), i \in Indices(haystack) :
      LET key == needles_it(impl, k)
      IN /\ key = -(k + 1)
         /\ key \in (-size(needles))..(-1)
         /\ adapter_lhs_idx(i, key) = i /\ adapter_rhs_idx(i, key) = k
         /\ adapter_lhs_idx(key, i) = i /\ adapter_rhs_idx(key, i) = k
         /\ probe_hasher_index(impl, key) = k
         /\ probe_hasher_index(impl, key) \in Indices(needles)

====
